---- MODULE Spec2Model ----
(***************************************************************************)
(* NetBIOS name codec and NBNS message builder of tornado_smb/nbt.py.      *)
(*                                                                         *)
(* A str is a sequence of Unicode code points, a bytes object a sequence   *)
(* of integers 0..255.  An operation that can raise returns a record whose *)
(* field err is the name of the exception class ("" when it returns).      *)
(***************************************************************************)
EXTENDS Integers, Sequences, FiniteSets, TLC

VARIABLES pc, args, name, data, parsed, query, msg, packet

vars == <<pc, args, name, data, parsed, query, msg, packet>>

----------------------------------------------------------------------------
(* Module-level constants, nbt.py lines 9-25 *)

ORD_A == 65
WILDCARD == <<42>>
ZERO == 0
BYTE_ZERO == <<ZERO>>
SPACE == 32
DOT == 46

NB_NAME_PURPOSE_WORKSTATION == 0
NB_NAME_PURPOSE_MESSENGER == 3
NB_NAME_PURPOSE_FILE_SERVER == 32
NB_NAME_PURPOSE_DOMAIN_MASTER == 27

NB_NAME_FULL_LEN == 16
NB_NAME_FULL_LEN_BYTES == NB_NAME_FULL_LEN * 2
NB_NAME_VALUE_LEN == NB_NAME_FULL_LEN - 1

----------------------------------------------------------------------------
(* Python built-ins the codec relies on *)

Min(a, b) == IF a < b THEN a ELSE b

Fill(c, n) == [i \in 1..n |-> c]

\* s[a:b] with 0 <= a, 0 <= b: Python slicing clamps to the end of s
Slice(s, a, b) == SubSeq(s, a + 1, Min(b, Len(s)))

\* bytes.ljust(s, width, fill) and the "{:15}" format of a str: pad on the
\* right up to width items, leave a longer s as it is
Ljust(s, width, fill) ==
    IF Len(s) >= width THEN s ELSE s \o Fill(fill, width - Len(s))

\* bytes((v, )): a bytes object takes integers 0..255 only
IsByte(v) == v \in 0..255

\* int | int on Python's unbounded two's-complement integers
RECURSIVE PyOr(_, _)
PyOr(a, b) ==
    IF a = 0 THEN b
    ELSE IF b = 0 THEN a
    ELSE IF a = -1 \/ b = -1 THEN -1
    ELSE 2 * PyOr(a \div 2, b \div 2)
         + (IF (a % 2 = 1) \/ (b % 2 = 1) THEN 1 ELSE 0)

\* int & int on non-negative integers
RECURSIVE PyAnd(_, _)
PyAnd(a, b) ==
    IF a = 0 \/ b = 0 THEN 0
    ELSE 2 * PyAnd(a \div 2, b \div 2)
         + (IF (a % 2 = 1) /\ (b % 2 = 1) THEN 1 ELSE 0)

RECURSIVE Pow2(_)
Pow2(n) == IF n = 0 THEN 1 ELSE 2 * Pow2(n - 1)

\* int << n
Shl(a, n) == a * Pow2(n)

\* str.encode() of one code point: UTF-8
Utf8EncodeChar(cp) ==
    IF cp < 128 THEN <<cp>>
    ELSE IF cp < 2048 THEN <<192 + (cp \div 64), 128 + (cp % 64)>>
    ELSE IF cp < 65536
         THEN <<224 + (cp \div 4096), 128 + ((cp \div 64) % 64), 128 + (cp % 64)>>
    ELSE <<240 + (cp \div 262144), 128 + ((cp \div 4096) % 64),
           128 + ((cp \div 64) % 64), 128 + (cp % 64)>>

\* str.encode(): the encodings of the code points, concatenated in order
\* (the recursion halves the string to keep its depth logarithmic)
RECURSIVE StrEncode(_)
StrEncode(s) ==
    IF s = <<>> THEN <<>>
    ELSE IF Len(s) = 1 THEN Utf8EncodeChar(s[1])
    ELSE LET h == Len(s) \div 2
         IN StrEncode(SubSeq(s, 1, h)) \o StrEncode(SubSeq(s, h + 1, Len(s)))

IsCont(b) == b \in 128..191

\* bytes.decode(): strict UTF-8, UnicodeDecodeError on an invalid sequence
RECURSIVE Utf8Decode(_)
Utf8Decode(b) ==
    IF b = <<>> THEN [err |-> "", val |-> <<>>]
    ELSE
      LET b1 == b[1]
          n  == IF b1 < 128 THEN 1
                ELSE IF b1 \in 194..223 THEN 2
                ELSE IF b1 \in 224..239 THEN 3
                ELSE IF b1 \in 240..244 THEN 4
                ELSE 0
          second == IF b1 = 224 THEN 160..191
                    ELSE IF b1 = 237 THEN 128..159
                    ELSE IF b1 = 240 THEN 144..191
                    ELSE IF b1 = 244 THEN 128..143
                    ELSE 128..191
          wellFormed ==
              /\ n > 0
              /\ Len(b) >= n
              /\ n >= 2 => b[2] \in second
              /\ \A i \in 3..n : IsCont(b[i])
          cp == IF n = 1 THEN b1
                ELSE IF n = 2 THEN (b1 - 192) * 64 + (b[2] - 128)
                ELSE IF n = 3
                     THEN (b1 - 224) * 4096 + (b[2] - 128) * 64 + (b[3] - 128)
                ELSE (b1 - 240) * 262144 + (b[2] - 128) * 4096
                     + (b[3] - 128) * 64 + (b[4] - 128)
      IN IF ~wellFormed THEN [err |-> "UnicodeDecodeError", val |-> <<>>]
         ELSE LET rest == Utf8Decode(SubSeq(b, n + 1, Len(b)))
              IN IF rest.err # "" THEN rest
                 ELSE [err |-> "", val |-> <<cp>> \o rest.val]

\* str.upper() of one code point (exact for code points below 256)
CharUpper(cp) ==
    IF cp \in 97..122 THEN <<cp - 32>>
    ELSE IF cp \in (224..254) \ {247} THEN <<cp - 32>>
    ELSE IF cp = 223 THEN <<83, 83>>
    ELSE IF cp = 181 THEN <<924>>
    ELSE IF cp = 255 THEN <<376>>
    ELSE <<cp>>

\* str.upper()
RECURSIVE StrUpper(_)
StrUpper(s) ==
    IF s = <<>> THEN <<>>
    ELSE IF Len(s) = 1 THEN CharUpper(s[1])
    ELSE LET h == Len(s) \div 2
         IN StrUpper(SubSeq(s, 1, h)) \o StrUpper(SubSeq(s, h + 1, Len(s)))

\* str.isspace() of one code point
IsSpace(cp) ==
    cp \in (9..13) \cup (28..32) \cup {133, 160, 5760} \cup (8192..8202)
           \cup {8232, 8233, 8239, 8287, 12288}

RECURSIVE LStrip(_)
LStrip(s) ==
    IF s # <<>> /\ IsSpace(Head(s)) THEN LStrip(Tail(s)) ELSE s

RECURSIVE RStrip(_)
RStrip(s) ==
    IF s # <<>> /\ IsSpace(s[Len(s)]) THEN RStrip(SubSeq(s, 1, Len(s) - 1))
    ELSE s

\* str.strip()
Strip(s) == RStrip(LStrip(s))

\* str.split('.')
RECURSIVE Split(_)
Split(s) ==
    IF \A i \in 1..Len(s) : s[i] # DOT THEN <<s>>
    ELSE LET i == CHOOSE k \in 1..Len(s) :
                      s[k] = DOT /\ \A j \in 1..(k - 1) : s[j] # DOT
         IN <<SubSeq(s, 1, i - 1)>> \o Split(SubSeq(s, i + 1, Len(s)))

\* '.'.join(chunks)
RECURSIVE Join(_)
Join(chunks) ==
    IF chunks = <<>> THEN <<>>
    ELSE IF Len(chunks) = 1 THEN chunks[1]
    ELSE chunks[1] \o <<DOT>> \o Join(Tail(chunks))

\* b''.join(chunks)
RECURSIVE Concat(_)
Concat(chunks) ==
    IF chunks = <<>> THEN <<>> ELSE Head(chunks) \o Concat(Tail(chunks))

\* An int never compares equal to a str
IntEqStr(i, s) == FALSE

\* except ValueError catches UnicodeDecodeError too (its subclass)
IsValueError(e) == e \in {"ValueError", "UnicodeDecodeError"}

----------------------------------------------------------------------------
(* class NBName *)

NoName == [err |-> "none", value |-> <<>>, scope |-> <<>>, purpose |-> <<>>]

RaiseName(e) == [err |-> e, value |-> <<>>, scope |-> <<>>, purpose |-> <<>>]

NoBytes == [err |-> "none", val |-> <<>>]

\* NBName.__init__
NBName_init(value, scope, purpose) ==
    IF Len(value) > NB_NAME_VALUE_LEN THEN RaiseName("ValueError")
    ELSE IF ~IsByte(purpose) THEN RaiseName("ValueError")
    ELSE [err     |-> "",
          value   |-> StrUpper(value),
          scope   |-> IF scope # <<>> THEN StrUpper(scope) ELSE <<>>,
          purpose |-> <<purpose>>]

NB_NAME_WILDCARD_PADDED == Ljust(StrEncode(WILDCARD), NB_NAME_VALUE_LEN, ZERO)

\* NBName.encode_byte
encode_byte(value) ==
    LET hi_nibble == (value \div 16) % 16
        lo_nibble == value % 16
    IN <<hi_nibble + ORD_A, lo_nibble + ORD_A>>

\* b''.join(map(self.encode_byte, padded))
RECURSIVE encode_bytes(_)
encode_bytes(padded) ==
    IF padded = <<>> THEN <<>>
    ELSE IF Len(padded) = 1 THEN encode_byte(padded[1])
    ELSE LET h == Len(padded) \div 2
         IN encode_bytes(SubSeq(padded, 1, h))
            \o encode_bytes(SubSeq(padded, h + 1, Len(padded)))

\* the 15 bytes of the value before the purpose byte is appended
padded_value(self) ==
    IF self.value = WILDCARD THEN NB_NAME_WILDCARD_PADDED
    ELSE StrEncode(Ljust(self.value, NB_NAME_VALUE_LEN, SPACE))

\* NBName._encode_value
encode_value(self) == encode_bytes(padded_value(self) \o self.purpose)

\* pack_item of NBName.to_bytes, on an already encoded item
pack_item(item) == <<Len(item)>> \o item

\* NBName.to_bytes
to_bytes(self) ==
    LET labels == IF self.scope # <<>> THEN Split(self.scope) ELSE <<>>
        chunks == <<encode_value(self)>>
                  \o [i \in 1..Len(labels) |-> StrEncode(labels[i])]
    IN IF \E i \in 1..Len(chunks) : ~IsByte(Len(chunks[i]))
       THEN [err |-> "ValueError", val |-> <<>>]
       ELSE [err |-> "",
             val |-> Concat([i \in 1..Len(chunks) |-> pack_item(chunks[i])])
                     \o BYTE_ZERO]

\* NBName.decode_word
decode_word(hi_byte, lo_byte) ==
    LET hi_nibble == Shl(hi_byte - ORD_A, 4)
        lo_nibble == lo_byte - ORD_A
        v == PyOr(hi_nibble, lo_nibble)
    IN IF IsByte(v) THEN [err |-> "", val |-> <<v>>]
       ELSE [err |-> "ValueError", val |-> <<>>]

\* NBName.decode_bytes: the pairs are decoded in order, the first exception
\* ends the decoding
RECURSIVE decode_bytes(_)
decode_bytes(d) ==
    IF d = <<>> THEN [err |-> "", val |-> <<>>]
    ELSE IF Len(d) = 1 THEN [err |-> "IndexError", val |-> <<>>]
    ELSE LET w == decode_word(d[1], d[2])
         IN IF w.err # "" THEN w
            ELSE LET rest == decode_bytes(SubSeq(d, 3, Len(d)))
                 IN IF rest.err # "" THEN rest
                    ELSE [err |-> "", val |-> w.val \o rest.val]

\* NBName.decode_value_and_purpose
decode_value_and_purpose(d) ==
    LET value == Slice(d, 0, NB_NAME_VALUE_LEN)
    IN IF value = <<>> THEN [err |-> "IndexError", value |-> <<>>, purpose |-> 0]
       ELSE IF IntEqStr(value[1], WILDCARD)
            THEN IF Len(d) <= NB_NAME_VALUE_LEN
                 THEN [err |-> "IndexError", value |-> <<>>, purpose |-> 0]
                 ELSE [err |-> "", value |-> WILDCARD,
                       purpose |-> d[NB_NAME_VALUE_LEN + 1]]
       ELSE LET text == Utf8Decode(value)
            IN IF text.err # ""
               THEN [err |-> text.err, value |-> <<>>, purpose |-> 0]
               ELSE IF Len(d) <= NB_NAME_VALUE_LEN
               THEN [err |-> "IndexError", value |-> <<>>, purpose |-> 0]
               ELSE [err |-> "", value |-> Strip(text.val),
                     purpose |-> d[NB_NAME_VALUE_LEN + 1]]

\* the while loop of NBName.decode_scope from a given offset; the slice of a
\* label is clamped to the end of the data
RECURSIVE decode_chunks(_)
decode_chunks(d) ==
    IF d = <<>> THEN [err |-> "", val |-> <<>>]
    ELSE LET length == d[1]
             chunk  == Utf8Decode(Slice(d, 1, 1 + length))
         IN IF chunk.err # "" THEN [err |-> chunk.err, val |-> <<>>]
            ELSE LET rest == decode_chunks(SubSeq(d, 2 + length, Len(d)))
                 IN IF rest.err # "" THEN rest
                    ELSE [err |-> "", val |-> <<chunk.val>> \o rest.val]

\* NBName.decode_scope
decode_scope(d) ==
    IF d = <<>> THEN [err |-> "", val |-> <<>>]
    ELSE LET chunks == decode_chunks(d)
         IN IF chunks.err # "" THEN chunks
            ELSE [err |-> "", val |-> Join(chunks.val)]

\* NBName.from_bytes without the check of the name-length prefix
from_bytes_no_length_check(d) ==
    IF d = <<>> THEN RaiseName("IndexError")
    ELSE IF d[Len(d)] # ZERO THEN RaiseName("ValueError")
    ELSE
      LET length    == d[1]
          full_name == decode_bytes(Slice(d, 1, 1 + length))
      IN IF full_name.err # "" THEN RaiseName(full_name.err)
         ELSE
           LET vp == decode_value_and_purpose(full_name.val)
           IN IF vp.err # "" THEN RaiseName(vp.err)
              ELSE
                LET scope == decode_scope(Slice(d, 1 + length, Len(d) - 1))
                IN IF scope.err # "" THEN RaiseName(scope.err)
                   ELSE NBName_init(vp.value, scope.val, vp.purpose)

\* NBName.from_bytes
from_bytes(d) ==
    IF d = <<>> THEN RaiseName("IndexError")
    ELSE IF d[Len(d)] # ZERO THEN RaiseName("ValueError")
    ELSE IF d[1] # NB_NAME_FULL_LEN_BYTES THEN RaiseName("ValueError")
    ELSE
      LET length    == d[1]
          full_name == decode_bytes(Slice(d, 1, 1 + length))
      IN IF full_name.err # "" THEN RaiseName(full_name.err)
         ELSE
           LET vp == decode_value_and_purpose(full_name.val)
           IN IF vp.err # "" THEN RaiseName(vp.err)
              ELSE
                LET scope == decode_scope(Slice(d, 1 + length, Len(d) - 1))
                IN IF scope.err # "" THEN RaiseName(scope.err)
                   ELSE NBName_init(vp.value, scope.val, vp.purpose)

----------------------------------------------------------------------------
(* class NBNSMessage, NBNSRequest, NBNSNameQueryRequest *)

NB_NS_R_REQUEST == 0
NB_NS_R_RESPONSE == 1
NB_NS_OPCODE_QUERY == 0
NB_NS_NM_FLAGS_B == Shl(1, 0)
NB_NS_NM_FLAGS_RD == Shl(1, 4)
NB_NS_RCODE_POS_RSP == 0
NBNS_QUESTION_TYPE_NB == 32
NBNS_QUESTION_CLASS_IN == 1

\* the question_name argument: an NBName object or a bytes object
NoQuestion == [kind |-> "none", obj |-> NoName, raw |-> <<>>]

NoMessage ==
    [name_trn_id |-> 0, r |-> 0, opcode |-> 0, nm_flags |-> 0, rcode |-> 0,
     qdcount |-> 0, ancount |-> 0, nscount |-> 0, arcount |-> 0,
     question_name |-> NoQuestion, question_type |-> 0, question_class |-> 0]

\* NBNSMessage.__init__
NBNSMessage_init(name_trn_id, r, opcode, nm_flags, rcode, qdcount, ancount, nscount, arcount) ==
    [name_trn_id |-> name_trn_id, r |-> r, opcode |-> opcode,
     nm_flags |-> nm_flags, rcode |-> rcode, qdcount |-> qdcount,
     ancount |-> ancount, nscount |-> nscount, arcount |-> arcount,
     question_name |-> NoQuestion, question_type |-> 0, question_class |-> 0]

\* NBNSRequest.__init__
NBNSRequest_init(name_trn_id, opcode, nm_flags, qdcount, ancount, nscount, arcount, question_name, question_type, question_class) ==
    [NBNSMessage_init(name_trn_id, NB_NS_R_REQUEST, opcode, nm_flags,
                      NB_NS_RCODE_POS_RSP, qdcount, ancount, nscount, arcount)
     EXCEPT !.question_name  = question_name,
            !.question_type  = question_type,
            !.question_class = question_class]

\* NBNSNameQueryRequest.__init__
NBNSNameQueryRequest_init(name_trn_id, question_name, broadcast) ==
    LET nm_flags == PyOr(NB_NS_NM_FLAGS_RD,
                         IF broadcast THEN NB_NS_NM_FLAGS_B ELSE 0)
    IN NBNSRequest_init(name_trn_id, NB_NS_OPCODE_QUERY, nm_flags,
                        1, 0, 0, 0, question_name,
                        NBNS_QUESTION_TYPE_NB, NBNS_QUESTION_CLASS_IN)

\* struct.pack with the byte order reversed ('<nH' where the source has '>nH')
pack_H_little_endian(values) ==
    IF \E i \in 1..Len(values) : values[i] \notin 0..65535
    THEN [err |-> "struct.error", val |-> <<>>]
    ELSE [err |-> "",
          val |-> Concat([i \in 1..Len(values) |->
                            <<values[i] % 256, values[i] \div 256>>])]

\* struct.pack('>nH', ...): big-endian unsigned 16-bit words, struct.error
\* on a value outside 0..65535
pack_H(values) ==
    IF \E i \in 1..Len(values) : values[i] \notin 0..65535
    THEN [err |-> "struct.error", val |-> <<>>]
    ELSE [err |-> "",
          val |-> Concat([i \in 1..Len(values) |->
                            <<values[i] \div 256, values[i] % 256>>])]

\* the flags word with nm_flags masked to 8 bits instead of 7
header_flags_wide_nm(self) ==
    PyOr(PyOr(PyOr(PyAnd(15, self.rcode),
                   Shl(PyAnd(255, self.nm_flags), 4)),
              Shl(PyAnd(15, self.opcode), 11)),
         Shl(PyAnd(1, self.r), 15))

\* the flags word of NBNSMessage.build_header
header_flags(self) ==
    PyOr(PyOr(PyOr(PyAnd(15, self.rcode),
                   Shl(PyAnd(127, self.nm_flags), 4)),
              Shl(PyAnd(15, self.opcode), 11)),
         Shl(PyAnd(1, self.r), 15))

\* NBNSMessage.build_header
build_header(self) ==
    pack_H(<<self.name_trn_id, header_flags(self), self.qdcount,
             self.ancount, self.nscount, self.arcount>>)

\* NBNSRequest.build_query_entry: question_name + pack('>2H', ...); an
\* NBName object has no __add__, so the sum with bytes is a TypeError
build_query_entry(self) ==
    LET tail == pack_H(<<self.question_type, self.question_class>>)
    IN IF tail.err # "" THEN tail
       ELSE IF self.question_name.kind # "bytes"
            THEN [err |-> "TypeError", val |-> <<>>]
       ELSE [err |-> "", val |-> self.question_name.raw \o tail.val]

\* NBNSRequest.build_body
build_body(self) == build_query_entry(self)

\* NBNSMessage.to_bytes
message_to_bytes(self) ==
    LET header == build_header(self)
    IN IF header.err # "" THEN header
       ELSE LET body == build_body(self)
            IN IF body.err # "" THEN body
               ELSE [err |-> "", val |-> header.val \o body.val]

----------------------------------------------------------------------------
(* Bounds and the inputs the operations are exercised on *)

MaxFill == 14
MaxLabelLen == 3
MaxR == 3
LongLabelLen == 256

Alphabet == {65, 97, 32, 42, 233}

Edge == {<<>>} \cup {<<c>> : c \in Alphabet}

\* the empty value, the wildcard, and bodies of 1..MaxFill letters 'B' with at
\* most one character of Alphabet before and after (up to 16 characters)
Values ==
    {<<>>, WILDCARD}
    \cup {p \o Fill(66, n) \o s : p \in Edge, s \in Edge, n \in 1..MaxFill}

Labels == {<<>>, <<97>>, Fill(99, MaxLabelLen)}

Scopes ==
    Labels \cup {Join(<<a, b>>) : a \in Labels, b \in Labels}
           \cup {Fill(68, LongLabelLen)}

Purposes == {NB_NAME_PURPOSE_WORKSTATION, NB_NAME_PURPOSE_FILE_SERVER, 255}

NoArgs == [value |-> <<>>, scope |-> <<>>, purpose |-> 0, set |-> FALSE]

ByteSamples == {0, 1, 32, 64, 65, 80, 81, 97, 195, 255}

BaseNames ==
    {NBName_init(<<65>>, <<>>, 0),
     NBName_init(WILDCARD, <<>>, 0),
     NBName_init(<<65, 98>>, <<97, 46, 99, 99>>, 32)}

BaseBuffers == {to_bytes(n).val : n \in BaseNames}

Buffers ==
    UNION {
      {[b EXCEPT ![i] = v] : i \in 1..Len(b), v \in ByteSamples}
      \cup {SubSeq(b, 1, n) : n \in 0..Len(b)}
      \cup {SubSeq(b, 1, n) \o BYTE_ZERO : n \in 0..Len(b)}
      \cup {SubSeq(b, 1, Len(b) - 1) \o <<k>> \o Fill(69, m) \o BYTE_ZERO :
              k \in 0..(MaxLabelLen + 1), m \in 0..MaxLabelLen}
      : b \in BaseBuffers }

TrnIds == {0, 4660, 43981, 65535, 65536}
Opcodes == {0, 5, 15, 16, 21}
NmFlags == {0, 1, 16, 17, 127, 128, 255}
Rcodes == {0, 1, 7, 15, 16, 23}
Counts == {<<1, 0, 0, 0>>, <<0, 1, 2, 3>>,
           <<65535, 65535, 65535, 65535>>, <<0, 0, 65536, 0>>}

NoQuery == [name_trn_id |-> 0, question_name |-> NoQuestion,
            broadcast |-> FALSE, set |-> FALSE]

FILESRV == <<70, 73, 76, 69, 83, 82, 86>>

QuestionNames ==
    {NBName_init(v, s, p) : v \in {FILESRV, WILDCARD, <<97>>},
                            s \in {<<>>, <<97, 46, 98>>},
                            p \in {NB_NAME_PURPOSE_WORKSTATION,
                                   NB_NAME_PURPOSE_FILE_SERVER}}

----------------------------------------------------------------------------
(* The state machine: one action per operation *)

Init ==
    /\ pc = "start"
    /\ args = NoArgs
    /\ name = NoName
    /\ data = NoBytes
    /\ parsed = NoName
    /\ query = NoQuery
    /\ msg = NoMessage
    /\ packet = NoBytes

\* name = NBName(value, scope, purpose)
Construct ==
    /\ pc = "start"
    /\ \E value \in Values, scope \in Scopes, purpose \in Purposes :
          /\ args' = [value |-> value, scope |-> scope, purpose |-> purpose,
                      set |-> TRUE]
          /\ name' = NBName_init(value, scope, purpose)
    /\ pc' = "constructed"
    /\ UNCHANGED <<data, parsed, query, msg, packet>>

\* data = name.to_bytes()
ToBytes ==
    /\ pc = "constructed"
    /\ name.err = ""
    /\ data' = to_bytes(name)
    /\ pc' = "encoded"
    /\ UNCHANGED <<args, name, parsed, query, msg, packet>>

\* a buffer arrives from the network
Receive ==
    /\ pc = "start"
    /\ \E b \in Buffers : data' = [err |-> "", val |-> b]
    /\ pc' = "received"
    /\ UNCHANGED <<args, name, parsed, query, msg, packet>>

\* parsed = NBName.from_bytes(data)
FromBytes ==
    /\ pc \in {"encoded", "received"}
    /\ data.err = ""
    /\ parsed' = from_bytes(data.val)
    /\ pc' = "decoded"
    /\ UNCHANGED <<args, name, data, query, msg, packet>>

Next == Construct \/ ToBytes \/ Receive \/ FromBytes

Spec == Init /\ [][Next]_vars

\* a message of a concrete subclass of NBNSMessage with arbitrary fields
NewMessage ==
    /\ pc = "start"
    /\ \E id \in TrnIds, r \in 0..MaxR, opcode \in Opcodes,
          nm_flags \in NmFlags, rcode \in Rcodes, c \in Counts :
          msg' = NBNSMessage_init(id, r, opcode, nm_flags, rcode,
                                  c[1], c[2], c[3], c[4])
    /\ pc' = "message"
    /\ UNCHANGED <<args, name, data, parsed, query, packet>>

\* msg = NBNSNameQueryRequest(name_trn_id, question_name, broadcast), the
\* question name given as the NBName object or as its encoded bytes
NewNameQuery ==
    /\ pc = "start"
    /\ \E id \in TrnIds, n \in QuestionNames, asBytes \in BOOLEAN,
          broadcast \in BOOLEAN :
          LET question_name ==
                  IF asBytes
                  THEN [kind |-> "bytes", obj |-> n, raw |-> to_bytes(n).val]
                  ELSE [kind |-> "NBName", obj |-> n, raw |-> <<>>]
          IN /\ query' = [name_trn_id |-> id, question_name |-> question_name,
                          broadcast |-> broadcast, set |-> TRUE]
             /\ msg' = NBNSNameQueryRequest_init(id, question_name, broadcast)
    /\ pc' = "request"
    /\ UNCHANGED <<args, name, data, parsed, packet>>

\* packet = msg.build_header()
BuildHeader ==
    /\ pc \in {"message", "request"}
    /\ packet' = build_header(msg)
    /\ pc' = "header"
    /\ UNCHANGED <<args, name, data, parsed, query, msg>>

\* packet = msg.to_bytes()
MessageToBytes ==
    /\ pc = "request"
    /\ packet' = message_to_bytes(msg)
    /\ pc' = "sent"
    /\ UNCHANGED <<args, name, data, parsed, query, msg>>

NextMsg == NewMessage \/ NewNameQuery \/ BuildHeader \/ MessageToBytes

SpecMsg == Init /\ [][NextMsg]_vars

----------------------------------------------------------------------------
(* Properties *)

\* UTF-8 length of a str
ByteLen(s) == Len(StrEncode(s))

\* the labels of a scope as to_bytes sees them
ScopeLabels(scope) == IF scope = <<>> THEN <<>> ELSE Split(scope)

\* the length-prefixed encoding of a sequence of labels
PackedLabels(labels) ==
    Concat([i \in 1..Len(labels) |->
              <<ByteLen(labels[i])>> \o StrEncode(labels[i])])

\* the bytes a run of letter pairs stands for, 'A' + nibble each
Unnibble(b) ==
    [i \in 1..(Len(b) \div 2) |-> (b[2 * i - 1] - 65) * 16 + (b[2 * i] - 65)]

\* the i-th big-endian 16-bit word of a bytes object
Word(b, i) == b[2 * i - 1] * 256 + b[2 * i]

\* a length byte of the label section d announces more bytes than remain
RECURSIVE HasOverrun(_)
HasOverrun(d) ==
    /\ d # <<>>
    /\ \/ d[1] > Len(d) - 1
       \/ HasOverrun(SubSeq(d, 2 + d[1], Len(d)))

WildcardVector ==
    <<32, 67, 75>> \o Fill(65, 30) \o <<0>>

\* C1: a name built from a value of at most 15 bytes and scope labels of at
\* most 63 bytes each, encoded with to_bytes and decoded with from_bytes,
\* comes back with the upper-cased value, the upper-cased scope and the same
\* purpose byte.
C1_RoundTrip ==
    ( /\ pc = "decoded"
      /\ args.set
      /\ ByteLen(args.value) <= 15
      /\ \A i \in 1..Len(ScopeLabels(args.scope)) :
            ByteLen(ScopeLabels(args.scope)[i]) <= 63 )
    => /\ parsed.err = ""
       /\ parsed.value = StrUpper(args.value)
       /\ parsed.scope = StrUpper(args.scope)
       /\ parsed.purpose = <<args.purpose>>

\* C2: for every name the constructor accepts, to_bytes returns the length
\* byte 32, then 32 bytes in 'A'..'P', then each scope label as a length byte
\* and the label's bytes, then one zero byte.
C2_WireFormat ==
    pc = "encoded"
    => /\ data.err = ""
       /\ Len(data.val) >= 34
       /\ data.val[1] = 32
       /\ \A i \in 2..33 : data.val[i] \in 65..80
       /\ SubSeq(data.val, 34, Len(data.val))
            = PackedLabels(ScopeLabels(name.scope)) \o <<0>>

\* C3: a value longer than 15 bytes is refused at construction with the
\* name-too-long error (ValueError): no name object exists and nothing is
\* encoded or decoded afterwards; a value of 15 bytes or fewer is accepted.
C3_LengthGuard ==
    args.set
    => /\ ByteLen(args.value) > 15
          => /\ name = RaiseName("ValueError")
             /\ pc = "constructed"
             /\ data = NoBytes
             /\ parsed = NoName
       /\ ByteLen(args.value) <= 15 => name.err = ""

\* C4: from_bytes fails with the malformed-name error (ValueError), returning
\* no name, for every buffer whose final byte is not zero and for every
\* buffer whose final byte is zero but whose first byte is not 32.
C4_MalformedDecode ==
    ( /\ pc = "decoded"
      /\ data.val # <<>>
      /\ \/ data.val[Len(data.val)] # 0
         \/ data.val[1] # 32 )
    => parsed = RaiseName("ValueError")

C4_Witness ==
    /\ pc = "decoded"
    /\ Len(data.val) > 1
    /\ data.val[Len(data.val)] = 0
    /\ data.val[1] # 32
    /\ parsed.err = "ValueError"

\* C5: from_bytes fails with the malformed-name error whenever a scope-label
\* length byte (after the 32 name bytes, before the final zero) announces
\* more label bytes than remain.
C5_ScopeOverrunRejected ==
    ( /\ pc = "decoded"
      /\ Len(data.val) >= 34
      /\ HasOverrun(SubSeq(data.val, 34, Len(data.val) - 1)) )
    => IsValueError(parsed.err)

\* C6: NBNSNameQueryRequest(id, name, broadcast).to_bytes(), name an NBName
\* object, returns the 12-byte header (r=0, opcode=0, nm_flags 0x10 or 0x11
\* when broadcast, rcode=0, qdcount=1, other counts 0), then name.to_bytes(),
\* then 00 20 00 01.
C6_NameQueryEndToEnd ==
    ( /\ pc = "sent"
      /\ query.set
      /\ query.question_name.kind = "NBName"
      /\ query.name_trn_id \in 0..65535 )
    => /\ packet.err = ""
       /\ packet.val =
            <<query.name_trn_id \div 256, query.name_trn_id % 256,
              1, IF query.broadcast THEN 16 ELSE 0,
              0, 1, 0, 0, 0, 0, 0, 0>>
            \o to_bytes(query.question_name.obj).val
            \o <<0, 32, 0, 1>>

\* C7: for a transaction id and counts in 0..65535 and any non-negative r,
\* opcode, nm_flags, rcode, build_header returns 12 bytes, the big-endian
\* words [id, flags, qdcount, ancount, nscount, arcount], where bit 15 of
\* flags is r & 1, bits 14-11 are opcode & 0xF, bits 10-4 are nm_flags & 0x7F
\* and bits 3-0 are rcode & 0xF.
C7_HeaderBitLayout ==
    ( /\ pc = "header"
      /\ \A v \in {msg.name_trn_id, msg.qdcount, msg.ancount, msg.nscount,
                   msg.arcount} : v \in 0..65535 )
    => /\ packet.err = ""
       /\ Len(packet.val) = 12
       /\ \A i \in 1..12 : packet.val[i] \in 0..255
       /\ Word(packet.val, 1) = msg.name_trn_id
       /\ Word(packet.val, 3) = msg.qdcount
       /\ Word(packet.val, 4) = msg.ancount
       /\ Word(packet.val, 5) = msg.nscount
       /\ Word(packet.val, 6) = msg.arcount
       /\ LET flags == Word(packet.val, 2)
          IN /\ flags \div 32768 = msg.r % 2
             /\ (flags \div 2048) % 16 = msg.opcode % 16
             /\ (flags \div 16) % 128 = msg.nm_flags % 128
             /\ flags % 16 = msg.rcode % 16
             /\ flags = (msg.rcode % 16) + (msg.nm_flags % 128) * 16
                        + (msg.opcode % 16) * 2048 + (msg.r % 2) * 32768

C7_Witness ==
    /\ pc = "header"
    /\ msg.name_trn_id = 43981
    /\ msg.r = 3
    /\ msg.opcode = 21
    /\ msg.nm_flags = 255
    /\ msg.rcode = 23
    /\ packet.err = ""
    /\ Word(packet.val, 2) = 32768 + 5 * 2048 + 127 * 16 + 7

\* the fields of the header vector: id 0x1234, r=0, opcode=QUERY,
\* nm_flags=RD, rcode=0, qdcount=1, other counts 0
IsHeaderVector ==
    /\ pc = "header"
    /\ msg.name_trn_id = 4660
    /\ msg.r = 0
    /\ msg.opcode = 0
    /\ msg.nm_flags = 16
    /\ msg.rcode = 0
    /\ msg.qdcount = 1
    /\ msg.ancount = 0
    /\ msg.nscount = 0
    /\ msg.arcount = 0

\* C8 as stated: the header vector packs to 12 34 01 10 00 01 00 00 00 00 00 00.
C8_HeaderVectorAsStated ==
    IsHeaderVector
    => packet = [err |-> "", val |-> <<18, 52, 1, 16, 0, 1, 0, 0, 0, 0, 0, 0>>]

\* C8 amended: the header vector packs to 12 34 01 00 00 01 00 00 00 00 00 00
\* (flags = RD << 4 = 0x0100).
C8_HeaderVector ==
    IsHeaderVector
    => packet = [err |-> "", val |-> <<18, 52, 1, 0, 0, 1, 0, 0, 0, 0, 0, 0>>]

C8_Witness ==
    /\ IsHeaderVector
    /\ msg.question_name.kind = "none"
    /\ packet.err = ""

\* C9: the name '*' with purpose 0 and empty scope encodes to 0x20, the 32
\* letters "CK" + 30 * "A", and 0x00; a non-wildcard value is instead padded
\* on the right with spaces to 15 bytes (followed by the purpose byte).
C9_WildcardVector ==
    ( /\ pc = "encoded"
      /\ data.err = "" )
    => /\ ( /\ args.value = <<42>>
            /\ args.scope = <<>>
            /\ args.purpose = 0 ) => data.val = WildcardVector
       /\ name.value # <<42>>
          => Unnibble(SubSeq(data.val, 2, 1 + data.val[1]))
               = Ljust(StrEncode(name.value), 15, 32) \o name.purpose

\* C10: for a buffer that ends in zero and starts with 32, from_bytes returns
\* a name only if the buffer holds 32 name bytes each in 'A'..'P'; otherwise
\* it fails with the malformed-name error.
C10_DecodeOnlyWellFormed ==
    ( /\ pc = "decoded"
      /\ data.val # <<>>
      /\ data.val[Len(data.val)] = 0
      /\ data.val[1] = 32 )
    => LET wellFormed ==
               /\ Len(data.val) >= 34
               /\ \A i \in 2..33 : data.val[i] \in 65..80
       IN /\ parsed.err = "" => wellFormed
          /\ ~wellFormed => parsed.err = "ValueError"

====
